---- MODULE Spec2Model ----
(***************************************************************************)
(* Model of imapsync-status.py (ImapsyncStatus): the start-up of handle()  *)
(* and its poll loop over the *.pid marker files and the imapsync logs;    *)
(* and of imapsync-launcher.py (ImapsyncLauncher): handle().               *)
(*                                                                         *)
(* Encoding of Python values:                                              *)
(*   None / absent file      the empty tuple <<>>                          *)
(*   a present value v       the one-element tuple <<v>>                   *)
(*   a call that may raise   a record whose field raise names the          *)
(*                           exception ("" when the call returns)          *)
(* A log line is abstracted to the parts the regular expressions of        *)
(* get_sync_status and get_sync_progress look at (see Line below).         *)
(***************************************************************************)
EXTENDS Integers, Sequences, FiniteSets, TLC

\* Number of file-system changes (marker or log written or removed) that
\* the environment performs in one behaviour.
MaxChanges == 3

\* Number of *.pid files in a working directory that does not change.
MaxStaticFiles == 2

None == <<>>
Some(v) == <<v>>
Val(x) == x[1]

----------------------------------------------------------------------------
(* The environment: user file, marker files, log files.                    *)

\* Rows of the user CSV file, in file order (source_user column).  One
\* user is literally named "user": handle() looks up jobs['user'].
UserFileRows == <<"user", "alice", "a b", "user">>

\* Lexicographic rank of the names that occur, for sorted().
NameRank(n) == CASE n = "a b" -> 0 [] n = "alice" -> 1 [] n = "user" -> 2 [] n = "zed" -> 3

\* Users whose marker files can occur in the working directory: the
\* configured ones and one that is not in the user file.
MarkerUsers == {"alice", "user", "zed"}

\* get_user_pid_file: the marker file name of a user.  A file name is kept
\* as its two parts so that the user regex can be applied to it.
get_user_pid_file(username) == [prefix |-> "imapsync-", stem |-> username, ext |-> ".pid"]

\* A *.pid file of another program in the working directory.
OtherPidFile == [prefix |-> "", stem |-> "other", ext |-> ".pid"]

PidFileNames == {get_user_pid_file(u) : u \in MarkerUsers} \cup {OtherPidFile}

\* The log path imapsync writes for a user (LOG_imapsync/<...>.txt).
LogPathOf(u) == [stem |-> u, ext |-> ".txt"]

LogPaths == {LogPathOf(u) : u \in MarkerUsers}

\* Content of a marker file: the process-id line and the log-path line,
\* each possibly not (yet) written.
MarkerContents(u) ==
    { [pid |-> Some(7),  log |-> Some(LogPathOf(u))],
      [pid |-> Some(10), log |-> Some(LogPathOf(u))],
      [pid |-> Some(7),  log |-> None],
      [pid |-> None,     log |-> None] }

\* A log line: counts is "num" when the line ends in "<r>/<t> msgs left"
\* with both parts decimal integers, "malformed" when the token is there
\* with a non-numeric part ("abc/100 msgs left"), "tailnum" when the
\* non-numeric remaining part ends in the digits r ("x30/100 msgs left"),
\* "none" otherwise (also the empty line that tail -1 prints for an empty
\* log).  eta is "ok" for an "ETA: <text>
\* YYYY-MM-DD HH:MM:SS" token holding the valid date e, "baddate" for the
\* right digit shape but no valid date (month 13), "badshape" for an ETA
\* token of another shape, "none" without ETA token.
Line(c, r, t, k, e) == [counts |-> c, r |-> r, t |-> t, eta |-> k, e |-> e]

Lines ==
    { Line("none", 0, 0, "none", 0),
      Line("num", 30, 100, "ok", 1),
      Line("num", 10, 100, "ok", 2),
      Line("num", 30, 100, "none", 0),
      Line("num", 0, 0, "ok", 1),
      Line("malformed", 0, 0, "ok", 1),
      Line("tailnum", 30, 100, "ok", 1),
      Line("num", 30, 100, "baddate", 0),
      Line("num", 30, 100, "badshape", 0),
      Line("num", 5, 3, "ok", 1) }

----------------------------------------------------------------------------
VARIABLES
    user_file_exists,   \* os.path.exists(user_file_path)
    show_running,       \* --show-running
    pidfiles,           \* marker file name -> None | Some(content)
    logs,               \* log path -> None | Some(last line)
    changes,            \* file-system changes done so far
    pc,                 \* "start", "sleep", "files", "raised", "exited"
    exit_code,          \* None until sys.exit
    exc,                \* name of the uncaught exception, "" if none
    users,              \* sorted user names (keys of the users dict)
    jobs,               \* dict user -> task id (index into tasks)
    tasks,              \* job_progress.tasks
    status,             \* fields of status_task
    overall,            \* overall_task
    pid_files,          \* local pid_files: the glob result of this tick
    pos,                \* number of pid_files the for loop has taken
    max_eta,            \* local max_eta of the running tick
    user,               \* local user
    log_data,           \* local log_data
    last_line,          \* local last_line
    sync_status,        \* local sync_status
    sync_progress,      \* local sync_progress
    etas_now,           \* history: the well-formed ETAs of the lines the
                        \* running tick classified "syncing"
    gone,               \* history: users whose marker was found by an
                        \* earlier tick and not by the latest one
    syncing_now,        \* history: users whose last line the running
                        \* tick classified "syncing"
    markers_read,       \* history: the status tool has listed or read
                        \* the marker files
    tick_base,          \* history: None before the first tick, Some(None)
                        \* from the first tick on, Some(Some(d)) from the
                        \* second on, d the display the tick before the
                        \* latest one ended with
    pushes,             \* history: the updates of the overall task that
                        \* the running tick has made
    frame,              \* the display as Live's refresh thread drew it
                        \* last, with the point of the loop at which the
                        \* redraw ended; None before the first redraw
    drawing,            \* what the redraw under way has read so far:
                        \* <<>>, <<status>> or <<status, tasks>>
    dry_run,            \* launcher: --dry-run
    assume_yes,         \* launcher: --yes
    users_limit,        \* launcher: the USER arguments
    confirm,            \* launcher: the answer given at the prompt
    l_pc,               \* launcher: "start", "spawn", "done", "exited"
    l_exit_code,        \* launcher: None until exit
    l_users,            \* launcher: local users after the filter
    l_pos,              \* launcher: users the spawn loop has taken
    spawned             \* launcher: the processes started, in order

envvars == <<user_file_exists, show_running, pidfiles, logs, changes>>
locals == <<pid_files, pos, max_eta, user, log_data, last_line, sync_status,
            sync_progress>>
display == <<jobs, tasks, status, overall>>
history == <<gone, syncing_now, etas_now, markers_read, tick_base, pushes,
             frame, drawing>>
launcher == <<dry_run, assume_yes, users_limit, confirm, l_pc, l_exit_code,
              l_users, l_pos, spawned>>
vars == <<envvars, pc, exit_code, exc, users, display, locals, history, launcher>>

----------------------------------------------------------------------------
(* Pure helpers of ImapsyncStatus.                                         *)

\* manage_arguments without the test of the user file.
manage_arguments_unchecked(exists) == None

\* manage_arguments of the status tool: the status of sys.exit when the
\* user file does not exist, None when it returns.
manage_arguments(exists) == IF ~exists THEN Some(1) ELSE None

\* manage_arguments of the launcher, the same test.
launcher_manage_arguments(exists) == IF ~exists THEN Some(1) ELSE None

\* sorted(users.items()) of parse_csv_file: later rows replace earlier rows
\* of the same source_user, the keys come out in ascending order.
parse_csv_file(rows) ==
    LET names == {rows[i] : i \in 1..Len(rows)}
        idx == CHOOSE f \in [1..Cardinality(names) -> names] :
                  /\ \A i, j \in DOMAIN f : i # j => f[i] # f[j]
                  /\ \A i, j \in DOMAIN f : i < j => NameRank(f[i]) < NameRank(f[j])
    IN [i \in 1..Cardinality(names) |-> idx[i]]

\* open(file_path, 'w'): the file is created or truncated.
open_w(fs, f) == [fs EXCEPT ![f] = Some([pid |-> None, log |-> None])]

\* open(file_path, 'r') of line 189, what it does to the directory: it
\* neither creates nor truncates the file.
open_r(fs, f) == fs

\* re.search('^[1-9]+$', data, re.MULTILINE) on the process-id line: the
\* decimal representation of n uses the digits 1..9 only.
RECURSIVE DigitsOneToNine(_)
DigitsOneToNine(n) ==
    IF n < 10 THEN n >= 1
    ELSE (n % 10) >= 1 /\ DigitsOneToNine(n \div 10)

\* re.search('imapsync-(.+).pid$', file_path)
UserOfFileName(f) ==
    IF f.prefix = "imapsync-" /\ f.ext = ".pid" THEN Some(f.stem) ELSE None

\* parse_pid_file.  open() raises when the file has gone since glob();
\* .group() on a failed search raises AttributeError.
parse_pid_file(f, content) ==
    IF content = None THEN [raise |-> "FileNotFoundError"]
    ELSE LET data == Val(content)
             usr == UserOfFileName(f)
             pid == IF data.pid # None /\ DigitsOneToNine(Val(data.pid))
                    THEN data.pid ELSE None
             log_file_path == IF data.log # None /\ Val(data.log).ext = ".txt"
                              THEN data.log ELSE None
         IN IF usr = None \/ pid = None \/ log_file_path = None
            THEN [raise |-> "AttributeError"]
            ELSE [raise |-> "", user |-> Val(usr), pid |-> Val(pid),
                  log_file_path |-> Val(log_file_path)]

\* get_last_line: tail -1 exits nonzero on a file it cannot open and
\* check_output raises CalledProcessError.
get_last_line(fs, path) ==
    IF fs[path] = None THEN [raise |-> "CalledProcessError"]
    ELSE [raise |-> "", line |-> Val(fs[path])]

\* get_sync_status with its two results exchanged.
get_sync_status_swapped(line) ==
    IF line.counts \in {"num", "tailnum"} THEN "running" ELSE "syncing"

\* get_sync_status: '([0-9]+)\/([0-9]+) msgs left$'.  The search is not
\* anchored on the left: the digits that end a non-numeric remaining part
\* satisfy it.
get_sync_status(line) ==
    IF line.counts \in {"num", "tailnum"} THEN "syncing" ELSE "running"

\* get_sync_progress: the regex needs the ETA token with the date's digit
\* shape and the counts token with a blank right before its digits; the
\* division and strptime follow in that order.  The percentage is kept as its integer part; the eta of a
\* returned sample is always a datetime, Some(e).
get_sync_progress(line) ==
    IF line.counts = "num" /\ line.eta \in {"ok", "baddate"}
    THEN LET left_messages == line.r
             total_messages == line.t
             transferred_messages == total_messages - left_messages
         IN IF total_messages = 0 THEN [raise |-> "ZeroDivisionError"]
            ELSE IF line.eta = "baddate" THEN [raise |-> "ValueError"]
            ELSE [raise |-> "",
                  value |-> Some([eta |-> Some(line.e),
                                  transferred_messages |-> transferred_messages,
                                  total_messages |-> total_messages,
                                  left_messages |-> left_messages,
                                  current_percentage |->
                                      (transferred_messages * 100) \div total_messages])]
    ELSE [raise |-> "", value |-> None]

----------------------------------------------------------------------------
(* The rich Progress objects, reduced to the fields handle() reads and     *)
(* writes.  A text field that shows '?' is None.                           *)

\* add_task without total=None: rich's default total of 100.
NewTaskDefaultTotal(username) ==
    [description |-> username, started |-> FALSE, total |-> Some(100),
     completed |-> 0, eta |-> None]

\* status_progress.add_task with idle_users='0', like running_jobs.
InitialStatusNoIdle(users_count) ==
    [total_users |-> users_count, running_jobs |-> 0, idle_users |-> 0,
     max_eta |-> None]

\* status_progress.add_task(..., total_users=users_count, running_jobs='0',
\* idle_users=users_count, max_eta='?'); '0' shows as 0 does.
InitialStatus(users_count) ==
    [total_users |-> users_count, running_jobs |-> 0, idle_users |-> users_count,
     max_eta |-> None]

\* job_progress.add_task(job_title, start=False, total=None, eta="?")
NewTask(username) ==
    [description |-> username, started |-> FALSE, total |-> None,
     completed |-> 0, eta |-> None]

\* job_progress.start_task
start_task(ts, id) == [ts EXCEPT ![id].started = TRUE]

\* job_progress.update(task, total=, completed=, eta=)
update(ts, id, total, completed, eta) ==
    [ts EXCEPT ![id].total = Some(total), ![id].completed = completed,
               ![id].eta = Some(eta)]

\* user_pid_file_exists
user_pid_file_exists(username) ==
    /\ get_user_pid_file(username) \in DOMAIN pidfiles
    /\ pidfiles[get_user_pid_file(username)] # None

\* The membership test without the subscript: `user in jobs`.
JobsUserLookupPlain(js, u) == [raise |-> "", value |-> u \in DOMAIN js]

\* The test of line 433, `user in jobs['user']`: the subscript raises
\* KeyError when no task was added for a user named "user"; otherwise it
\* yields that task's id, an int, and `in` raises TypeError.
JobsUserLookup(js, u) ==
    IF "user" \notin DOMAIN js THEN [raise |-> "KeyError"]
    ELSE [raise |-> "TypeError"]

\* The loop of lines 454-462 over job_progress.tasks.
RECURSIVE FoldTasks(_, _)
FoldTasks(ts, n) ==
    IF n = 0 THEN [overall_total |-> 0, overall_completed |-> 0, running_tasks |-> 0]
    ELSE LET acc == FoldTasks(ts, n - 1)
             task == ts[n]
         IN [overall_total |-> IF task.total # None
                               THEN acc.overall_total + Val(task.total)
                               ELSE acc.overall_total,
             overall_completed |-> IF task.total # None
                                   THEN acc.overall_completed + task.completed
                                   ELSE acc.overall_completed,
             running_tasks |-> IF task.started THEN acc.running_tasks + 1
                               ELSE acc.running_tasks]

\* Lines 447-451: the running maximum of the ETA timestamps.
MaxEtaStep(current, eta) ==
    IF current = None \/ eta > Val(current) THEN Some(eta) ELSE current

\* The same with idle_users taken from the number of tasks on display.
UpdateStatusTaskByTasks(st) ==
    LET f == FoldTasks(st.tasks, Len(st.tasks))
        idle_users == Len(st.tasks) - f.running_tasks
    IN [st EXCEPT !.status = [@ EXCEPT !.running_jobs = f.running_tasks,
                                       !.idle_users = idle_users,
                                       !.max_eta = st.max_eta]]

\* Lines 453-475 on the program state st: the fold and
\* status_progress.update.
UpdateStatusTask(st) ==
    LET f == FoldTasks(st.tasks, Len(st.tasks))
        idle_users == Len(users) - f.running_tasks
    IN [st EXCEPT !.status = [@ EXCEPT !.running_jobs = f.running_tasks,
                                       !.idle_users = idle_users,
                                       !.max_eta = st.max_eta]]

\* Lines 477-483: overall_progress.update with the sums of the fold; no
\* task changes between the fold and this call.
UpdateOverallTask(st) ==
    LET f == FoldTasks(st.tasks, Len(st.tasks))
    IN [st EXCEPT !.overall = [total |-> Some(f.overall_total),
                               completed |-> f.overall_completed,
                               running_jobs |-> f.running_tasks],
                  !.pushes = @ + 1]

\* Lines 453-483 on the program state st: fold, then the two updates.
FoldAndPush(st) == UpdateOverallTask(UpdateStatusTask(st))

\* Lines 426-451, the body of `if sync_status == "syncing"`.
SyncingBranch(st) ==
    LET sp == get_sync_progress(Val(st.last_line))
    IN IF sp.raise # "" THEN [st EXCEPT !.exc = sp.raise]
       ELSE LET st1 == [st EXCEPT !.sync_progress = sp.value]
            IN IF sp.value = None THEN [st1 EXCEPT !.exc = "TypeError"]
               ELSE LET p == Val(sp.value)
                        member == JobsUserLookup(st1.jobs, st1.user)
                    IN IF member.raise # "" THEN [st1 EXCEPT !.exc = member.raise]
                       ELSE LET st2 ==
                                  IF member.value
                                  THEN [st1 EXCEPT !.tasks =
                                          update(start_task(@, st1.jobs[st1.user]),
                                                 st1.jobs[st1.user],
                                                 p.total_messages,
                                                 p.transferred_messages,
                                                 Val(p.eta))]
                                  ELSE \* `username` is left over from the
                                       \* start-up loop: the last user
                                       LET username == users[Len(users)]
                                           id == Len(st1.tasks) + 1
                                       IN [st1 EXCEPT
                                             !.tasks = Append(@, NewTask(username)),
                                             !.jobs = [k \in DOMAIN @ \cup {username} |->
                                                         IF k = username THEN id ELSE @[k]]]
                            IN [st2 EXCEPT !.max_eta = MaxEtaStep(@, Val(p.eta))]

\* Lines 419-451, one pass of `for pid_file in pid_files` for the file f
\* up to the end of `if sync_status == "syncing"`.
ReadAndUpdateJob(f, st) ==
    LET parsed == parse_pid_file(f, pidfiles[f])
    IN IF parsed.raise # "" THEN [st EXCEPT !.exc = parsed.raise]
       ELSE LET st1 == [st EXCEPT !.log_data = Some([user |-> parsed.user, pid |-> parsed.pid,
                                                      log_file_path |-> parsed.log_file_path]),
                                  !.user = parsed.user]
                tail == get_last_line(logs, parsed.log_file_path)
            IN IF tail.raise # "" THEN [st1 EXCEPT !.exc = tail.raise]
               ELSE LET st2 == [st1 EXCEPT !.last_line = Some(tail.line),
                                           !.sync_status = get_sync_status(tail.line)]
                    IN IF st2.sync_status = "syncing"
                       THEN SyncingBranch(st2) ELSE st2

\* Lines 419-483, one pass of `for pid_file in pid_files` for the file f.
HandlePidFile(f, st) ==
    LET st3 == ReadAndUpdateJob(f, st)
    IN IF st3.exc # "" THEN st3 ELSE FoldAndPush(st3)

----------------------------------------------------------------------------
(* Initial state and actions.                                              *)

\* The status tool before handle() runs.
StatusInit ==
    /\ pc = "start"
    /\ exit_code = None
    /\ exc = ""
    /\ users = <<>>
    /\ jobs = <<>>
    /\ tasks = <<>>
    /\ status = [total_users |-> 0, running_jobs |-> 0, idle_users |-> 0, max_eta |-> None]
    /\ overall = [total |-> None, completed |-> 0, running_jobs |-> 0]
    /\ pid_files = <<>>
    /\ pos = 0
    /\ max_eta = None
    /\ user = ""
    /\ log_data = None
    /\ last_line = None
    /\ sync_status = ""
    /\ sync_progress = None
    /\ gone = {}
    /\ syncing_now = {}
    /\ etas_now = {}
    /\ markers_read = FALSE
    /\ tick_base = None
    /\ pushes = 0
    /\ frame = None
    /\ drawing = <<>>

\* The launcher before its handle() runs.
LauncherInit ==
    /\ l_pc = "start"
    /\ l_exit_code = None
    /\ l_users = <<>>
    /\ l_pos = 0
    /\ spawned = <<>>

\* The status tool over a working directory that starts empty; the
\* launcher is not run.
Init ==
    /\ user_file_exists \in BOOLEAN
    /\ show_running \in BOOLEAN
    /\ pidfiles = [f \in PidFileNames |-> None]
    /\ logs = [p \in LogPaths |-> None]
    /\ changes = 0
    /\ StatusInit
    /\ dry_run = FALSE /\ assume_yes = FALSE /\ users_limit = {} /\ confirm = FALSE
    /\ LauncherInit

Running == pc \in {"start", "sleep", "files"}

\* The launcher / imapsync writes or rewrites the marker file of user u.
WriteMarker ==
    /\ Running /\ changes < MaxChanges
    /\ \E u \in MarkerUsers : \E c \in MarkerContents(u) :
          /\ pidfiles[get_user_pid_file(u)] # Some(c)
          /\ pidfiles' = [pidfiles EXCEPT ![get_user_pid_file(u)] = Some(c)]
    /\ changes' = changes + 1
    /\ UNCHANGED <<user_file_exists, show_running, logs, pc, exit_code, exc,
                   users, display, locals, history, launcher>>

\* imapsync ends and its marker file goes away.
RemoveMarker ==
    /\ Running /\ changes < MaxChanges
    /\ \E f \in PidFileNames :
          /\ pidfiles[f] # None
          /\ pidfiles' = [pidfiles EXCEPT ![f] = None]
    /\ changes' = changes + 1
    /\ UNCHANGED <<user_file_exists, show_running, logs, pc, exit_code, exc,
                   users, display, locals, history, launcher>>

\* A running imapsync, whose marker file is there, creates its log or
\* appends a line to it.
WriteLog ==
    /\ Running /\ changes < MaxChanges
    /\ \E u \in MarkerUsers : \E p \in {LogPathOf(u)} : \E l \in Lines :
          /\ pidfiles[get_user_pid_file(u)] # None
          /\ logs[p] # Some(l)
          /\ logs' = [logs EXCEPT ![p] = Some(l)]
    /\ changes' = changes + 1
    /\ UNCHANGED <<user_file_exists, show_running, pidfiles, pc, exit_code, exc,
                   users, display, locals, history, launcher>>

\* Another program writes its pid file, a process id and nothing else.
WriteOtherPid ==
    /\ Running /\ changes < MaxChanges
    /\ pidfiles[OtherPidFile] = None
    /\ pidfiles' = [pidfiles EXCEPT ![OtherPidFile] = Some([pid |-> Some(7), log |-> None])]
    /\ changes' = changes + 1
    /\ UNCHANGED <<user_file_exists, show_running, logs, pc, exit_code, exc,
                   users, display, locals, history, launcher>>

\* A log file is removed or rotated away.
RemoveLog ==
    /\ Running /\ changes < MaxChanges
    /\ \E p \in LogPaths :
          /\ logs[p] # None
          /\ logs' = [logs EXCEPT ![p] = None]
    /\ changes' = changes + 1
    /\ UNCHANGED <<user_file_exists, show_running, pidfiles, pc, exit_code, exc,
                   users, display, locals, history, launcher>>

\* handle(), lines 288-405: manage_arguments, parse_csv_file, the status
\* task, one job task per user (filtered by --show-running), the overall
\* task.
Startup ==
    /\ pc = "start"
    /\ IF manage_arguments(user_file_exists) # None
       THEN /\ pc' = "exited"
            /\ exit_code' = manage_arguments(user_file_exists)
            /\ UNCHANGED <<users, display, markers_read>>
       ELSE LET us == parse_csv_file(UserFileRows)
                users_count == Len(us)
                Shown(username) == ~show_running \/
                                   (show_running /\ user_pid_file_exists(username))
                shown == SelectSeq(us, Shown)
            IN /\ users' = us
               /\ tasks' = [i \in 1..Len(shown) |-> NewTask(shown[i])]
               /\ jobs' = [u \in {shown[i] : i \in 1..Len(shown)} |->
                             CHOOSE i \in 1..Len(shown) : shown[i] = u]
               /\ status' = InitialStatus(users_count)
               /\ overall' = [total |-> None, completed |-> 0, running_jobs |-> 0]
               /\ pc' = "sleep"
               /\ markers_read' = TRUE
               /\ UNCHANGED exit_code
    /\ UNCHANGED <<envvars, exc, locals, gone, syncing_now, etas_now, tick_base,
                   pushes, frame, drawing, launcher>>

\* The users named by a set of marker file names.
StemsOf(files) == {f.stem : f \in files}

Range(seq) == {seq[i] : i \in 1..Len(seq)}

\* Lines 410-417: sleep(1), the reset of max_eta, glob('*.pid').  glob
\* returns the names in directory order, which is arbitrary.
Discover ==
    /\ pc = "sleep"
    /\ LET present == {f \in PidFileNames : pidfiles[f] # None}
           n == Cardinality(present)
       IN /\ \E order \in [1..n -> present] :
                /\ \A i, j \in 1..n : i # j => order[i] # order[j]
                /\ pid_files' = order
          /\ pc' = IF n = 0 THEN "sleep" ELSE "files"
          /\ gone' = (gone \cup StemsOf(Range(pid_files))) \ StemsOf(present)
    /\ pos' = 0
    /\ max_eta' = None
    /\ syncing_now' = {}
    /\ etas_now' = {}
    /\ markers_read' = TRUE
    /\ tick_base' = IF tick_base = None THEN Some(None)
                    ELSE Some(Some(<<tasks, status, overall>>))
    /\ pushes' = 0
    /\ UNCHANGED <<envvars, exit_code, exc, users, display, user, log_data,
                   last_line, sync_status, sync_progress, frame, drawing,
                   launcher>>

\* Lines 418-483: the body of the for loop for the next pid file.  An
\* exception is caught nowhere: it leaves the loop and ends the program.
ProcessPidFile ==
    /\ pc = "files"
    /\ LET pid_file == pid_files[pos + 1]
           st == [exc |-> "", user |-> user, log_data |-> log_data,
                  last_line |-> last_line, sync_status |-> sync_status,
                  sync_progress |-> sync_progress,
                  jobs |-> jobs, tasks |-> tasks, max_eta |-> max_eta,
                  status |-> status, overall |-> overall, pushes |-> pushes]
           r == HandlePidFile(pid_file, st)
           \* the step got as far as classifying a line as "syncing"
           parsed == parse_pid_file(pid_file, pidfiles[pid_file])
           classified ==
               /\ parsed.raise = ""
               /\ get_last_line(logs, parsed.log_file_path).raise = ""
               /\ get_sync_status(get_last_line(logs, parsed.log_file_path).line)
                     = "syncing"
       IN /\ exc' = r.exc
          /\ user' = r.user
          /\ log_data' = r.log_data
          /\ last_line' = r.last_line
          /\ sync_status' = r.sync_status
          /\ sync_progress' = r.sync_progress
          /\ jobs' = r.jobs
          /\ tasks' = r.tasks
          /\ max_eta' = r.max_eta
          /\ status' = r.status
          /\ overall' = r.overall
          /\ pushes' = r.pushes
          /\ syncing_now' = IF classified THEN syncing_now \cup {r.user}
                            ELSE syncing_now
          /\ etas_now' =
                IF classified /\
                   get_last_line(logs, parsed.log_file_path).line.eta = "ok"
                THEN etas_now \cup {get_last_line(logs, parsed.log_file_path).line.e}
                ELSE etas_now
          /\ IF r.exc # ""
             THEN /\ pc' = "raised"
                  /\ exit_code' = Some(1)
                  /\ UNCHANGED pos
             ELSE /\ pos' = pos + 1
                  /\ pc' = IF pos + 1 = Len(pid_files) THEN "sleep" ELSE "files"
                  /\ UNCHANGED exit_code
    /\ markers_read' = TRUE
    /\ pidfiles' = open_r(pidfiles, pid_files[pos + 1])
    /\ UNCHANGED <<user_file_exists, show_running, logs, changes, users,
                   pid_files, gone, tick_base, frame, drawing, launcher>>

----------------------------------------------------------------------------
(* The launcher, imapsync-launcher.py.                                     *)

\* parse_csv_file of the launcher, the same text as the status tool's.
launcher_parse_csv_file(rows) == parse_csv_file(rows)

\* str.split(' ') on a user name.
SplitBlank(name) == IF name = "a b" THEN <<"a", "b">> ELSE <<name>>

\* build_imapsync_cmd(..., pid_file=pid_file, return_type='args'), lines
\* 212-277: the options are joined into one string with blanks and the
\* string is split at every blank; pidfile is the argument that follows
\* '--pidfile' in the result.
build_imapsync_cmd(pid_file) ==
    LET words == SplitBlank(pid_file.stem)
    IN [pidfile |-> IF Len(words) = 1 THEN pid_file
                    ELSE [prefix |-> pid_file.prefix, stem |-> words[1], ext |-> ""]]

\* Lines 285-317 of the launcher: manage_arguments, parse_csv_file, the
\* USER filter, the prompt.
LauncherStart ==
    /\ l_pc = "start"
    /\ IF launcher_manage_arguments(user_file_exists) # None
       THEN /\ l_pc' = "exited"
            /\ l_exit_code' = launcher_manage_arguments(user_file_exists)
            /\ UNCHANGED <<l_users, l_pos>>
       ELSE LET us == launcher_parse_csv_file(UserFileRows)
                InLimit(key) == key \in users_limit
                filtered == IF users_limit # {} THEN SelectSeq(us, InLimit) ELSE us
            IN IF ~assume_yes /\ ~confirm
               THEN /\ l_pc' = "exited"
                    /\ l_exit_code' = Some(1)
                    /\ UNCHANGED <<l_users, l_pos>>
               ELSE /\ l_users' = filtered
                    /\ l_pos' = 0
                    /\ l_pc' = IF Len(filtered) = 0 THEN "done" ELSE "spawn"
                    /\ UNCHANGED l_exit_code
    /\ UNCHANGED <<envvars, pc, exit_code, exc, users, display, locals, history,
                   dry_run, assume_yes, users_limit, confirm, spawned>>

\* Lines 320-354 of the launcher: the body of the loop over the users for
\* the next user; subprocess.Popen, which starts the process, unless
\* --dry-run.
LauncherSpawn ==
    /\ l_pc = "spawn"
    /\ LET username == l_users[l_pos + 1]
           pid_file_path == get_user_pid_file(username)
           imapsync_command_args == build_imapsync_cmd(pid_file_path)
       IN spawned' = IF ~dry_run
                     THEN Append(spawned, [user |-> username,
                                           pid_file |-> imapsync_command_args.pidfile])
                     ELSE spawned
    /\ l_pos' = l_pos + 1
    /\ l_pc' = IF l_pos + 1 = Len(l_users) THEN "done" ELSE "spawn"
    /\ UNCHANGED <<envvars, pc, exit_code, exc, users, display, locals, history,
                   dry_run, assume_yes, users_limit, confirm, l_exit_code, l_users>>

Next ==
    \/ WriteMarker
    \/ RemoveMarker
    \/ WriteOtherPid
    \/ WriteLog
    \/ RemoveLog
    \/ Startup
    \/ Discover
    \/ ProcessPidFile

Spec == Init /\ [][Next]_vars

\* Both tools started in a working directory that holds the markers and
\* logs of running jobs of some of the configured users and does not
\* change.
ToolsInit ==
    /\ user_file_exists \in BOOLEAN
    /\ show_running \in BOOLEAN
    /\ \E P \in SUBSET {"alice", "user"} :
          /\ pidfiles = [f \in PidFileNames |->
                           IF f \in {get_user_pid_file(u) : u \in P}
                           THEN Some([pid |-> Some(7), log |-> Some(LogPathOf(f.stem))])
                           ELSE None]
          /\ logs = [p \in LogPaths |->
                       IF p \in {LogPathOf(u) : u \in P}
                       THEN Some(Line("none", 0, 0, "none", 0)) ELSE None]
    /\ changes = 0
    /\ StatusInit
    /\ dry_run \in BOOLEAN
    /\ assume_yes \in BOOLEAN
    /\ confirm \in BOOLEAN
    /\ users_limit \in SUBSET (MarkerUsers \cup {"a b"})
    /\ LauncherInit

ToolsNext ==
    \/ Startup
    \/ Discover
    \/ ProcessPidFile
    \/ LauncherStart
    \/ LauncherSpawn

ToolsSpec == ToolsInit /\ [][ToolsNext]_vars

\* The last lines of the logs of a directory that does not change: one of
\* each kind of counts token, with and without a well-formed ETA.
StaticLines ==
    { Line("none", 0, 0, "none", 0),
      Line("num", 30, 100, "ok", 1),
      Line("num", 30, 100, "none", 0),
      Line("malformed", 0, 0, "ok", 1),
      Line("tailnum", 30, 100, "ok", 1) }

\* What a *.pid file can hold.
PidFileContents(f) ==
    IF f = OtherPidFile THEN {[pid |-> Some(7), log |-> None]}
    ELSE MarkerContents(f.stem)

\* The status tool over a working directory that holds up to
\* MaxStaticFiles *.pid files, with or without the logs they name, and
\* does not change while the tool runs.
StaticInit ==
    /\ user_file_exists = TRUE
    /\ show_running \in BOOLEAN
    /\ \E F \in SUBSET PidFileNames :
          /\ Cardinality(F) <= MaxStaticFiles
          /\ pidfiles \in [PidFileNames -> {None} \cup
                              {Some(c) : c \in UNION {PidFileContents(f) : f \in PidFileNames}}]
          /\ \A f \in PidFileNames :
                IF f \in F THEN pidfiles[f] \in {Some(c) : c \in PidFileContents(f)}
                ELSE pidfiles[f] = None
          /\ logs \in [LogPaths -> {None} \cup {Some(l) : l \in StaticLines}]
          /\ \A p \in LogPaths :
                p \notin {LogPathOf(f.stem) : f \in F \ {OtherPidFile}} => logs[p] = None
    /\ changes = 0
    /\ StatusInit
    /\ dry_run = FALSE /\ assume_yes = FALSE /\ users_limit = {} /\ confirm = FALSE
    /\ LauncherInit

StaticNext ==
    \/ Startup
    \/ Discover
    \/ ProcessPidFile

StaticSpec == StaticInit /\ [][StaticNext]_vars

----------------------------------------------------------------------------
(* The status tool with the redraws of Live(progress_table,               *)
(* refresh_per_second=10), line 407: Live redraws the table from a thread  *)
(* of its own, ten times a second, whatever the loop is doing, and once    *)
(* more when the with block is left.  A redraw can fall between any two    *)
(* calls that change a Progress object, so the body of the for loop is     *)
(* taken in three steps here: lines 419-451, status_progress.update,       *)
(* overall_progress.update.                                                *)

\* Lines 419-451 for the next pid file.
ReadMarker ==
    /\ pc = "files"
    /\ LET pid_file == pid_files[pos + 1]
           st == [exc |-> "", user |-> user, log_data |-> log_data,
                  last_line |-> last_line, sync_status |-> sync_status,
                  sync_progress |-> sync_progress,
                  jobs |-> jobs, tasks |-> tasks, max_eta |-> max_eta,
                  status |-> status, overall |-> overall, pushes |-> pushes]
           r == ReadAndUpdateJob(pid_file, st)
           parsed == parse_pid_file(pid_file, pidfiles[pid_file])
           classified ==
               /\ parsed.raise = ""
               /\ get_last_line(logs, parsed.log_file_path).raise = ""
               /\ get_sync_status(get_last_line(logs, parsed.log_file_path).line)
                     = "syncing"
       IN /\ exc' = r.exc
          /\ user' = r.user
          /\ log_data' = r.log_data
          /\ last_line' = r.last_line
          /\ sync_status' = r.sync_status
          /\ sync_progress' = r.sync_progress
          /\ jobs' = r.jobs
          /\ tasks' = r.tasks
          /\ max_eta' = r.max_eta
          /\ syncing_now' = IF classified THEN syncing_now \cup {r.user}
                            ELSE syncing_now
          /\ etas_now' =
                IF classified /\
                   get_last_line(logs, parsed.log_file_path).line.eta = "ok"
                THEN etas_now \cup {get_last_line(logs, parsed.log_file_path).line.e}
                ELSE etas_now
          /\ IF r.exc # ""
             THEN /\ pc' = "raised"
                  /\ exit_code' = Some(1)
             ELSE /\ pc' = "status_update"
                  /\ UNCHANGED exit_code
    /\ markers_read' = TRUE
    /\ pidfiles' = open_r(pidfiles, pid_files[pos + 1])
    /\ UNCHANGED <<user_file_exists, show_running, logs, changes, users, status,
                   overall, pid_files, pos, gone, tick_base, pushes, frame,
                   drawing, launcher>>

\* Lines 453-475: the fold and status_progress.update.
StatusUpdate ==
    /\ pc = "status_update"
    /\ status' = UpdateStatusTask([tasks |-> tasks, max_eta |-> max_eta,
                                   status |-> status]).status
    /\ pc' = "overall_update"
    /\ UNCHANGED <<envvars, exit_code, exc, users, jobs, tasks, overall, locals,
                   history, launcher>>

\* Lines 477-483: overall_progress.update, the end of the loop body.
OverallUpdate ==
    /\ pc = "overall_update"
    /\ LET r == UpdateOverallTask([tasks |-> tasks, overall |-> overall,
                                   pushes |-> pushes])
       IN /\ overall' = r.overall
          /\ pushes' = r.pushes
    /\ pos' = pos + 1
    /\ pc' = IF pos + 1 = Len(pid_files) THEN "sleep" ELSE "files"
    /\ UNCHANGED <<envvars, exit_code, exc, users, jobs, tasks, status, pid_files,
                   max_eta, user, log_data, last_line, sync_status, sync_progress,
                   gone, syncing_now, etas_now, markers_read, tick_base, frame,
                   drawing, launcher>>

\* The loop is inside the with block, or an exception is leaving it.
LiveStarted == pc \in {"sleep", "files", "status_update", "overall_update", "raised"}

\* A redraw by Live's refresh thread, or the last one when an exception
\* leaves the with block.  The table is drawn row by row, each row from
\* its Progress object as it is when the row is drawn: first the row of
\* status_progress,
RefreshStatus ==
    /\ LiveStarted
    /\ drawing = <<>>
    /\ drawing' = <<status>>
    /\ UNCHANGED <<envvars, pc, exit_code, exc, users, display, locals, gone,
                   syncing_now, etas_now, markers_read, tick_base, pushes, frame,
                   launcher>>

\* then the row of job_progress,
RefreshJobs ==
    /\ Len(drawing) = 1
    /\ drawing' = Append(drawing, tasks)
    /\ UNCHANGED <<envvars, pc, exit_code, exc, users, display, locals, gone,
                   syncing_now, etas_now, markers_read, tick_base, pushes, frame,
                   launcher>>

\* then the row of overall_progress, which completes the frame.
RefreshOverall ==
    /\ Len(drawing) = 2
    /\ frame' = Some([status |-> drawing[1], tasks |-> drawing[2],
                      overall |-> overall, at |-> pc])
    /\ drawing' = <<>>
    /\ UNCHANGED <<envvars, pc, exit_code, exc, users, display, locals, gone,
                   syncing_now, etas_now, markers_read, tick_base, pushes,
                   launcher>>

\* The status tool over a working directory that holds the well-formed
\* markers of up to MaxStaticFiles users, with or without the logs they
\* name, and does not change while the tool runs.
LiveInit ==
    /\ user_file_exists = TRUE
    /\ show_running \in BOOLEAN
    /\ \E P \in SUBSET MarkerUsers :
          /\ Cardinality(P) <= MaxStaticFiles
          /\ pidfiles = [f \in PidFileNames |->
                           IF f \in {get_user_pid_file(u) : u \in P}
                           THEN Some([pid |-> Some(7), log |-> Some(LogPathOf(f.stem))])
                           ELSE None]
          /\ logs \in [LogPaths -> {None} \cup {Some(l) : l \in Lines}]
          /\ \A p \in LogPaths : p \notin {LogPathOf(u) : u \in P} => logs[p] = None
    /\ changes = 0
    /\ StatusInit
    /\ dry_run = FALSE /\ assume_yes = FALSE /\ users_limit = {} /\ confirm = FALSE
    /\ LauncherInit

LiveNext ==
    \/ Startup
    \/ Discover
    \/ ReadMarker
    \/ StatusUpdate
    \/ OverallUpdate
    \/ RefreshStatus
    \/ RefreshJobs
    \/ RefreshOverall

LiveSpec == LiveInit /\ [][LiveNext]_vars

----------------------------------------------------------------------------
(* Properties.                                                             *)

\* The for loop takes its next pid file in this step.
HandlerStep == pc = "files" /\ (pos' # pos \/ pc' = "raised")

\* The pid file the for loop takes next.
NextPidFile == pid_files[pos + 1]

\* The next pid file is one parse_pid_file can read, and l is the last
\* line of the log it names.
NextReads(l) ==
    /\ pc = "files"
    /\ parse_pid_file(NextPidFile, pidfiles[NextPidFile]).raise = ""
    /\ logs[parse_pid_file(NextPidFile, pidfiles[NextPidFile]).log_file_path] = Some(l)

\* C1: once the poll loop has started it never stops on its own: no tick
\* ends in an uncaught exception, whatever the marker and log files hold.
PollLoopNeverStops == pc # "raised"

\* C2: a tick that reads, for a configured user u, a syncing line with a
\* well-formed ETA e and counts r/t (r <= t, t > 0) leaves u's sample at
\* total = t, transferred = t - r, ETA = e, u's job started (Syncing), and
\* the loop goes on.
SyncingLineGivesSample ==
    [][\A l \in Lines :
         ( /\ HandlerStep
           /\ NextReads(l)
           /\ NextPidFile.stem \in Range(users)
           /\ l.counts = "num" /\ l.eta = "ok" /\ l.r <= l.t /\ l.t > 0 )
         => /\ pc' # "raised"
            /\ NextPidFile.stem \in DOMAIN jobs'
            /\ LET task == tasks'[jobs'[NextPidFile.stem]]
               IN /\ task.total = Some(l.t)
                  /\ task.completed = l.t - l.r
                  /\ task.eta = Some(l.e)
                  /\ task.started]_vars

\* C3: a tick that finds a marker whose log file cannot be read does not
\* raise, leaves every per-user sample as it was, and computes runningJobs
\* as usual.
UnreadableLogKeepsSample ==
    [][( /\ HandlerStep
         /\ parse_pid_file(NextPidFile, pidfiles[NextPidFile]).raise = ""
         /\ logs[parse_pid_file(NextPidFile, pidfiles[NextPidFile]).log_file_path] = None )
       => /\ pc' # "raised"
          /\ tasks' = tasks
          /\ status'.running_jobs = FoldTasks(tasks', Len(tasks')).running_tasks]_vars

\* C4: a corrupt marker (process-id token or log-path token missing) only
\* skips that job: the tick does not raise and goes on to the next marker.
CorruptMarkerSkipped ==
    [][( /\ HandlerStep
         /\ pidfiles[NextPidFile] # None
         /\ \/ Val(pidfiles[NextPidFile]).pid = None
            \/ Val(pidfiles[NextPidFile]).log = None )
       => /\ pc' # "raised"
          /\ pos' = pos + 1
          /\ tasks' = tasks]_vars

\* C5: reading a marker imapsync-<user>.pid that holds a positive process
\* id and a .txt log path succeeds and returns that user, id and path.
MarkerReadSucceeds ==
    [][( /\ HandlerStep
         /\ pidfiles[NextPidFile] # None
         /\ Val(pidfiles[NextPidFile]).pid # None
         /\ Val(Val(pidfiles[NextPidFile]).pid) > 0
         /\ Val(pidfiles[NextPidFile]).log # None )
       => /\ exc' # "AttributeError"
          /\ log_data' = Some([user |-> NextPidFile.stem,
                               pid |-> Val(Val(pidfiles[NextPidFile]).pid),
                               log_file_path |-> Val(Val(pidfiles[NextPidFile]).log)])]_vars

\* C6: a line with a well-formed counts token and no ETA token is
\* classified syncing, its counts are recorded with the ETA absent, the
\* tick does not raise and the line adds nothing to the maximum ETA.
CountsWithoutEtaSyncing ==
    [][\A l \in Lines :
         (HandlerStep /\ NextReads(l) /\ l.counts = "num" /\ l.eta = "none")
         => /\ pc' # "raised"
            /\ sync_status' = "syncing"
            /\ sync_progress' # None
            /\ Val(sync_progress').total_messages = l.t
            /\ Val(sync_progress').left_messages = l.r
            /\ Val(sync_progress').eta = None
            /\ max_eta' = max_eta]_vars

\* C7: a "0/0 msgs left" line yields percent = 0, transferred = 0 and
\* total = 0 without a division fault, and the tick completes.
ZeroTotalGivesZeroPercent ==
    [][\A l \in Lines :
         (HandlerStep /\ NextReads(l) /\ l.counts = "num" /\ l.t = 0 /\ l.r = 0)
         => /\ pc' # "raised"
            /\ exc' # "ZeroDivisionError"
            /\ sync_progress' # None
            /\ Val(sync_progress').current_percentage = 0
            /\ Val(sync_progress').transferred_messages = 0
            /\ Val(sync_progress').total_messages = 0]_vars

\* C8: whenever the line last read ends in a valid "<r>/<t> msgs left"
\* token with r <= t, the parser's result for it is syncing with total = t,
\* remaining = r, transferred = t - r and 0 <= transferred <= total.
ParserYieldsCounts ==
    \A l \in Lines :
       (last_line = Some(l) /\ l.counts = "num" /\ l.r <= l.t)
       => /\ sync_status = "syncing"
          /\ sync_progress # None
          /\ LET p == Val(sync_progress)
             IN /\ p.total_messages = l.t
                /\ p.left_messages = l.r
                /\ p.transferred_messages = l.t - l.r
                /\ 0 <= p.transferred_messages
                /\ p.transferred_messages <= p.total_messages

\* The fold of lines 454-462 over the tasks of the users that are not in
\* the set idle.
FoldWithout(idle) ==
    LET Kept(task) == task.description \notin idle
        kept == SelectSeq(tasks, Kept)
    IN FoldTasks(kept, Len(kept))

RunningJobsCountsSyncing ==
    (pos > 0 \/ pc = "raised")
    => status.running_jobs = Cardinality(syncing_now)

\* The largest element of a non-empty set of numbers.
Max(S) == CHOOSE x \in S : \A y \in S : y <= x

\* C11: the maxEta of the snapshot is the maximum ETA over the jobs the
\* tick classified as syncing, and undefined when there is none.
MaxEtaOverSyncing ==
    (pos > 0 \/ pc = "raised")
    => status.max_eta = IF etas_now = {} THEN None ELSE Some(Max(etas_now))

\* C12: a last line without the counts token (also the empty line of an
\* empty log) is classified running without raising, and the tick that
\* reads it leaves every job's progress numbers as they were.
NoCountsLineRunning ==
    [][\A l \in Lines :
         (HandlerStep /\ NextReads(l) /\ l.counts = "none")
         => /\ pc' # "raised"
            /\ sync_status' = "running"
            /\ tasks' = tasks]_vars

\* The for loop has just read a line without counts token and goes on.
NoCountsLineWitness ==
    /\ pos > 0
    /\ pc \in {"sleep", "files"}
    /\ last_line # None
    /\ Val(last_line).counts = "none"
    /\ sync_status = "running"

\* C13: a last line whose counts token has a non-numeric part is not
\* taken for a syncing line, does not raise, and leaves the job's sample
\* as the previous tick left it.
MalformedCountsKeepSample ==
    [][\A l \in Lines :
         (HandlerStep /\ NextReads(l) /\ l.counts \in {"malformed", "tailnum"})
         => /\ pc' # "raised"
            /\ sync_status' # "syncing"
            /\ tasks' = tasks]_vars

\* C14: a syncing line whose ETA timestamp is not a valid
\* YYYY-MM-DD HH:MM:SS yields a syncing sample with its counts and no ETA,
\* and the tick does not raise.
BadEtaDowngraded ==
    [][\A l \in Lines :
         (HandlerStep /\ NextReads(l) /\ l.counts = "num"
            /\ l.eta \in {"badshape", "baddate"})
         => /\ pc' # "raised"
            /\ exc' \notin {"ValueError", "TypeError"}
            /\ sync_status' = "syncing"
            /\ sync_progress' # None
            /\ Val(sync_progress').total_messages = l.t
            /\ Val(sync_progress').transferred_messages = l.t - l.r
            /\ Val(sync_progress').eta = None]_vars

\* C15: a *.pid file that is not named imapsync-<user>.pid, or that names
\* a user who is not in the user file, is ignored: the tick does not
\* raise, adds no task and changes no sample.
UnknownMarkerIgnored ==
    [][( /\ HandlerStep
         /\ pidfiles[NextPidFile] # None
         /\ \/ UserOfFileName(NextPidFile) = None
            \/ NextPidFile.stem \notin Range(users) )
       => /\ pc' # "raised"
          /\ jobs' = jobs
          /\ tasks' = tasks]_vars

\* C16: when the user file does not exist, the status tool and the
\* launcher exit with a nonzero status; the status tool never starts its
\* poll loop and never lists or reads a marker, the launcher never starts
\* a process.
MissingUserFileExits ==
    ~user_file_exists
    => /\ pc \in {"start", "exited"}
       /\ pc = "exited" => (exit_code # None /\ Val(exit_code) # 0)
       /\ ~markers_read
       /\ l_pc \in {"start", "exited"}
       /\ l_pc = "exited" => (l_exit_code # None /\ Val(l_exit_code) # 0)
       /\ spawned = <<>>

\* Both tools have run and exited on the missing user file.
MissingUserFileWitness ==
    /\ ~user_file_exists
    /\ pc = "exited"
    /\ l_pc = "exited"

\* The sums of total and completed over the tasks that hold a sample.
RECURSIVE SumSamples(_, _)
SumSamples(ts, n) ==
    IF n = 0 THEN [total |-> 0, transferred |-> 0]
    ELSE LET rest == SumSamples(ts, n - 1)
         IN IF ts[n].started /\ ts[n].total # None
            THEN [total |-> rest.total + Val(ts[n].total),
                  transferred |-> rest.transferred + ts[n].completed]
            ELSE rest

\* C17: in every snapshot overallTotal and overallTransferred are the sums
\* of total and transferred over the jobs that hold a sample,
\* overallTransferred <= overallTotal, and a job without sample adds 0.
OverallIsSumOfSamples ==
    overall.total # None
    => /\ Val(overall.total) = SumSamples(tasks, Len(tasks)).total
       /\ overall.completed = SumSamples(tasks, Len(tasks)).transferred
       /\ overall.completed <= Val(overall.total)

\* A snapshot was pushed while the jobs on display hold no sample.
OverallWitness ==
    /\ pos > 0
    /\ pc \in {"sleep", "files"}
    /\ overall.total # None
    /\ tasks # <<>>
    /\ \A i \in 1..Len(tasks) : tasks[i].total = None

\* C18: as long as no tick has found a marker, the snapshot shows
\* totalUsers = the number of configured users, runningJobs = 0,
\* idleUsers = totalUsers and no maxEta.
NoMarkerSnapshot ==
    (pc = "sleep" /\ pid_files = <<>> /\ gone = {})
    => status = [total_users |-> Cardinality(Range(UserFileRows)),
                 running_jobs |-> 0,
                 idle_users |-> Cardinality(Range(UserFileRows)),
                 max_eta |-> None]

\* A tick has run in a directory without any marker.
NoMarkerWitness ==
    /\ pc = "sleep"
    /\ tick_base # None
    /\ pid_files = <<>>
    /\ gone = {}
    /\ \A f \in PidFileNames : pidfiles[f] = None

ReadOnlyConsumer ==
    [][changes' = changes => (pidfiles' = pidfiles /\ logs' = logs)]_vars

\* A tick has read a marker and the last line of the log it names.
ReadOnlyWitness ==
    /\ pc = "sleep"
    /\ pos > 0
    /\ last_line # None
    /\ \E u \in MarkerUsers :
          /\ user = u
          /\ pidfiles[get_user_pid_file(u)] # None
          /\ logs[LogPathOf(u)] # None

\* The users the launcher is to start a process for.
ToSpawn ==
    IF ~user_file_exists \/ dry_run \/ ~(assume_yes \/ confirm) THEN {}
    ELSE {u \in Range(UserFileRows) : users_limit = {} \/ u \in users_limit}

\* C22: the launcher spawns a process for u iff u is a row of the user
\* file, u is among the USER arguments when any are given, --dry-run is off
\* and the run was confirmed or --yes given; at most one process per user,
\* in ascending user order, each with pid file imapsync-<u>.pid; none in
\* dry-run mode or after a declined prompt.
LauncherSpawnsExactly ==
    /\ \A i \in 1..Len(spawned) :
          /\ spawned[i].user \in ToSpawn
          /\ spawned[i].pid_file = get_user_pid_file(spawned[i].user)
    /\ \A i, j \in 1..Len(spawned) :
          i < j => NameRank(spawned[i].user) < NameRank(spawned[j].user)
    /\ l_pc \in {"done", "exited"}
          => {spawned[i].user : i \in 1..Len(spawned)} = ToSpawn

\* C23: a tick sleeps, discovers the markers, processes every one of
\* them and then pushes the fleet snapshot exactly once, also when it
\* discovered no marker: no push while markers remain to be processed, one
\* push when the tick has ended.
OnePushPerTick ==
    /\ pc = "files" => pushes = 0
    /\ (pc = "sleep" /\ tick_base # None) => pushes = 1

\* The fleet totals of a frame equal the fold of the per-user samples of
\* the same frame; a total that was never set is shown as no total and
\* agrees with a sum of 0.
FrameShowsFold(f) ==
    LET sums == SumSamples(f.tasks, Len(f.tasks))
        started == Cardinality({i \in 1..Len(f.tasks) : f.tasks[i].started})
    IN /\ (IF f.overall.total = None THEN 0 ELSE Val(f.overall.total)) = sums.total
       /\ f.overall.completed = sums.transferred
       /\ f.overall.running_jobs = started
       /\ f.status.running_jobs = started

IdleIsTotalMinusRunning ==
    pc \in {"sleep", "files", "raised"}
    => /\ status.idle_users = status.total_users - status.running_jobs
       /\ 0 <= status.running_jobs
       /\ status.running_jobs <= status.total_users
       /\ status.idle_users >= 0
       /\ status.total_users = Cardinality(Range(UserFileRows))

\* With --show-running, a tick has pushed a snapshot after reading the
\* marker of a configured user that had no task at start-up.
IdleWitness ==
    /\ show_running
    /\ pc = "sleep"
    /\ pushes > 0
    /\ user \in Range(users)
    /\ user \notin DOMAIN jobs

\* C26: a last line whose counts token has remaining > total is not
\* classified syncing, and no sample with a negative transferred count is
\* recorded or folded into overallTransferred.
RemainingAboveTotalNotSyncing ==
    [][\A l \in Lines :
         (HandlerStep /\ NextReads(l) /\ l.counts = "num" /\ l.r > l.t)
         => /\ sync_status' # "syncing"
            /\ \A i \in 1..Len(tasks') : tasks'[i].completed >= 0
            /\ overall'.completed >= 0]_vars

====
